---- MODULE Spec2Model ----
(***************************************************************************)
(* A model of go2web.py: the raw-socket HTTP client (CustomHTTPRequest),   *)
(* the fetch and search operations of Go2Web with its persisted search     *)
(* cache, and the command dispatch of main().                              *)
(*                                                                         *)
(* Text is modelled as a sequence of tokens (a token stands for a run of   *)
(* characters that the code never splits: "http", "example.com", "/",      *)
(* ":", " " ...).  The string functions of the code (find, split, strip,   *)
(* lower, urlparse, urljoin, the two regular expressions) are computed on  *)
(* these sequences the way the code computes them on characters.           *)
(***************************************************************************)
EXTENDS Integers, Sequences, FiniteSets, TLC

(***************************************************************************)
(* Bounds of the model.                                                    *)
(***************************************************************************)
\* the largest redirect budget (-r N) a run is started with
MaxBudget == 1
\* the largest number of header lines of a modelled response
MaxHeaders == 2
\* the recv loop's chunk counter saturates here
MaxChunks == 1
\* the clock stops after this many steps
MaxTicks == 2

(***************************************************************************)
(* Program constants.                                                      *)
(***************************************************************************)
\* 24 hour cache validity, in seconds
Validity == 86400
\* default of max_redirects
DefaultMaxRedirects == 5
\* result_blocks[:12]
MaxBlocks == 12
\* stop after 10 valid results
MaxResults == 10

(***************************************************************************)
(* Strings as token sequences.                                             *)
(***************************************************************************)
\* str.find for a one-token needle: the first index of t in s, 0 when absent
IndexOf(s, t) ==
    IF \E i \in 1..Len(s) : s[i] = t
    THEN CHOOSE i \in 1..Len(s) : s[i] = t /\ \A j \in 1..(i - 1) : s[j] # t
    ELSE 0

\* s[i:] of Python, with i counted from 1
Tail_(s, i) == SubSeq(s, i, Len(s))

RECURSIVE SplitStr(_, _)
\* str.split(sep): the pieces of s between the occurrences of token sep
SplitStr(s, sep) ==
    LET i == IndexOf(s, sep)
    IN  IF i = 0 THEN <<s>>
        ELSE <<SubSeq(s, 1, i - 1)>> \o SplitStr(Tail_(s, i + 1), sep)

RECURSIVE JoinStr(_, _)
\* sep.join(parts)
JoinStr(parts, sep) ==
    IF Len(parts) = 0 THEN <<>>
    ELSE IF Len(parts) = 1 THEN parts[1]
    ELSE parts[1] \o <<sep>> \o JoinStr(Tail(parts), sep)

\* str.lower() of one token
LowerTok(t) ==
    CASE t = "Location" -> "location"
      [] t = "LOCATION" -> "location"
      [] t = "Refresh"  -> "refresh"
      [] t = "REFRESH"  -> "refresh"
      [] t = "URL="     -> "url="
      [] t = "Target"   -> "target"
      [] t = "</HTML>"  -> "</html>"
      [] t = "</BODY>"  -> "</body>"
      [] t = "HTTP"     -> "http"
      [] OTHER          -> t

\* str.lower()
Lower(s) == [i \in 1..Len(s) |-> LowerTok(s[i])]

RECURSIVE LStrip(_)
LStrip(s) == IF Len(s) > 0 /\ s[1] = " " THEN LStrip(Tail(s)) ELSE s

RECURSIVE RStrip(_)
RStrip(s) ==
    IF Len(s) > 0 /\ s[Len(s)] = " " THEN RStrip(SubSeq(s, 1, Len(s) - 1)) ELSE s

\* str.strip()
Strip(s) == RStrip(LStrip(s))

(***************************************************************************)
(* urllib.parse as the code uses it.                                       *)
(***************************************************************************)
\* tokens made only of the characters urlsplit allows in a scheme
SchemeTokens ==
    {"http", "https", "HTTP", "ftp", "example.com", "other.org", "old", "new",
     "Target", "target", "x", "bad"}

\* the schemes of uses_relative and uses_netloc that occur here
RelativeSchemes == {<<>>, <<"http">>, <<"https">>, <<"ftp">>}

\* the position of the ':' that ends a scheme, 0 when the url has no scheme
SchemeEnd(url) ==
    LET i == IndexOf(url, ":")
    IN  IF i > 1 /\ \A j \in 1..(i - 1) : url[j] \in SchemeTokens THEN i ELSE 0

\* the end of the netloc that starts at position 3: the first of "/" "?" after it
NetlocEnd(rest) ==
    LET stops == {i \in 3..Len(rest) : rest[i] \in {"/", "?"}}
    IN  IF stops = {} THEN Len(rest) + 1
        ELSE CHOOSE i \in stops : \A j \in stops : i <= j

\* the netloc of a url without its scheme, and what follows the netloc
SplitNetloc(rest) ==
    IF Len(rest) >= 2 /\ rest[1] = "/" /\ rest[2] = "/"
    THEN [netloc |-> SubSeq(rest, 3, NetlocEnd(rest) - 1),
          rest   |-> Tail_(rest, NetlocEnd(rest))]
    ELSE [netloc |-> <<>>, rest |-> rest]

\* urlparse(url) raises ValueError ("Invalid IPv6 URL"): unbalanced brackets
BracketsRaise(netloc) == (IndexOf(netloc, "[") # 0) # (IndexOf(netloc, "]") # 0)

UrlParseRaises(url) ==
    BracketsRaise(SplitNetloc(Tail_(url, SchemeEnd(url) + 1)).netloc)

\* the result of urlparse from the scheme, the netloc and the rest
ParseResult(scheme, netloc, after, q) ==
    [scheme |-> scheme,
     netloc |-> netloc,
     path   |-> IF q = 0 THEN after ELSE SubSeq(after, 1, q - 1),
     query  |-> IF q = 0 THEN <<>> ELSE Tail_(after, q + 1)]

UrlSplit(scheme, n) == ParseResult(scheme, n.netloc, n.rest, IndexOf(n.rest, "?"))

\* urlparse(url): scheme, netloc, path and query
urlparse(url) ==
    UrlSplit(Lower(SubSeq(url, 1, SchemeEnd(url) - 1)),
             SplitNetloc(Tail_(url, SchemeEnd(url) + 1)))

\* the path urlunparse puts after a netloc
RootedPath(netloc, path) ==
    IF netloc # <<>> /\ path # <<>> /\ path[1] # "/" THEN <<"/">> \o path ELSE path

WithNetloc(scheme, netloc, path) ==
    IF netloc # <<>> \/ (scheme # <<>> /\ SubSeq(path, 1, 2) # <<"/", "/">>)
    THEN <<"/", "/">> \o netloc \o RootedPath(netloc, path) ELSE path

WithScheme(scheme, url) == IF scheme # <<>> THEN scheme \o <<":">> \o url ELSE url

WithQuery(url, query) == IF query # <<>> THEN url \o <<"?">> \o query ELSE url

\* urlunparse
urlunparse(scheme, netloc, path, query) ==
    WithQuery(WithScheme(scheme, WithNetloc(scheme, netloc, path)), query)

RECURSIVE ResolveDots(_, _)
\* the loop of urljoin over the segments: ".." pops, "." is dropped
ResolveDots(segments, resolved) ==
    IF Len(segments) = 0 THEN resolved
    ELSE IF Head(segments) = <<"..">>
    THEN ResolveDots(Tail(segments),
             IF Len(resolved) > 0
             THEN SubSeq(resolved, 1, Len(resolved) - 1) ELSE resolved)
    ELSE IF Head(segments) = <<".">> THEN ResolveDots(Tail(segments), resolved)
    ELSE ResolveDots(Tail(segments), Append(resolved, Head(segments)))

\* segments[1:-1] = filter(None, segments[1:-1])
DropEmptyInside(segments) ==
    IF Len(segments) <= 2 THEN segments
    ELSE <<segments[1]>>
         \o SelectSeq(SubSeq(segments, 2, Len(segments) - 1), LAMBDA g : g # <<>>)
         \o <<segments[Len(segments)]>>

\* base_parts: the last part, when it is not a directory, is deleted
BaseParts(parts) ==
    IF parts[Len(parts)] # <<>> THEN SubSeq(parts, 1, Len(parts) - 1) ELSE parts

\* the segments urljoin resolves
JoinSegments(bpath, path) ==
    IF path[1] = "/" THEN SplitStr(path, "/")
    ELSE DropEmptyInside(BaseParts(SplitStr(bpath, "/")) \o SplitStr(path, "/"))

\* a last segment "." or ".." leaves a trailing "/"
WithTrailing(segments, resolved) ==
    IF segments[Len(segments)] \in {<<".">>, <<"..">>}
    THEN Append(resolved, <<>>) ELSE resolved

PathOrRoot(path) == IF path = <<>> THEN <<"/">> ELSE path

ResolvedPath(segments) ==
    PathOrRoot(JoinStr(WithTrailing(segments, ResolveDots(segments, <<>>)), "/"))

\* urljoin once base and url are parsed and the scheme is known
JoinParsed(url, b, u, scheme) ==
    IF scheme # b.scheme \/ scheme \notin RelativeSchemes THEN url
    ELSE IF u.netloc # <<>>
    THEN urlunparse(scheme, u.netloc, u.path, u.query)
    ELSE IF u.path = <<>>
    THEN urlunparse(scheme, b.netloc, b.path,
                    IF u.query = <<>> THEN b.query ELSE u.query)
    ELSE urlunparse(scheme, b.netloc, ResolvedPath(JoinSegments(b.path, u.path)),
                    u.query)

JoinWith(url, b, u) ==
    JoinParsed(url, b, u, IF u.scheme = <<>> THEN b.scheme ELSE u.scheme)

\* urljoin(base, url)
urljoin(base, url) ==
    IF base = <<>> THEN url
    ELSE IF url = <<>> THEN base
    ELSE JoinWith(url, urlparse(base), urlparse(url))

(***************************************************************************)
(* Responses.  The bytes a peer sent are modelled by the pieces the code   *)
(* cuts them into: whether a "\r\n\r\n" boundary occurs, the status line,  *)
(* the header lines that follow it, and the body.  A body is a sequence of *)
(* markup items [tag, attr, val, has]:                                     *)
(*   tag "text"            running text                                    *)
(*   tag "</html>" ...     a closing tag, spelled as received              *)
(*   tag "meta"            a meta element, attr its http-equiv value, val  *)
(*                         its content attribute, has whether it has one   *)
(*   tag "snippet"         a div of class snippet, attr the text of its    *)
(*                         h3/span (empty when there is none), val the     *)
(*                         href of its a element, has whether it has one   *)
(***************************************************************************)
Item(tag, attr, val, has) == [tag |-> tag, attr |-> attr, val |-> val, has |-> has]

\* the tokens int() accepts, with their values
NumericTokens == {"0", "1", "2", "3", "200", "299", "300", "301", "399", "400", "404"}

\* int(token)
IntOf(t) ==
    CASE t = "0" -> 0 [] t = "1" -> 1 [] t = "2" -> 2 [] t = "3" -> 3
      [] t = "200" -> 200 [] t = "299" -> 299 [] t = "300" -> 300
      [] t = "301" -> 301 [] t = "399" -> 399 [] t = "400" -> 400
      [] t = "404" -> 404

\* int(s) raises ValueError
IntRaises(s) == ~(Len(s) = 1 /\ s[1] \in NumericTokens)

\* the text of a Response: the received body, or one of the two synthesized pages
BodyText(items) == [kind |-> "body", status |-> 0, href |-> <<>>, items |-> items]

_create_redirect_html(status_code, redirect_url) ==
    [kind |-> "moved", status |-> status_code, href |-> redirect_url, items |-> <<>>]

_create_meta_redirect_html(redirect_url) ==
    [kind |-> "refresh", status |-> 0, href |-> redirect_url, items |-> <<>>]

NoText == [kind |-> "none", status |-> 0, href |-> <<>>, items |-> <<>>]

\* needle in text.lower(), for a closing-tag needle
ContainsLower(text, needle) ==
    CASE text.kind = "body" ->
            \E i \in 1..Len(text.items) : LowerTok(text.items[i].tag) = needle
      [] text.kind = "moved" -> needle \in {"</html>", "</body>"}
      [] OTHER -> FALSE

\* Response(status_code, text, headers, url)
Response(status_code, text, headers, url) ==
    [ok |-> TRUE, status_code |-> status_code, text |-> text,
     headers |-> headers, url |-> url, err |-> "none"]

\* raise RequestException(f"Error during request to {current_url}: {e}")
RequestException(current_url, e) ==
    [ok |-> FALSE, status_code |-> 0, text |-> NoText,
     headers |-> <<>>, url |-> current_url, err |-> e]

\* no result of get yet
NoResponse ==
    [ok |-> FALSE, status_code |-> 0, text |-> NoText,
     headers |-> <<>>, url |-> <<>>, err |-> "none"]

\* status_line.split(' ')
StatusParts(raw) == SplitStr(raw.status_line, " ")

\* int(status_line.split(' ')[1]) raises IndexError or ValueError
StatusRaises(raw) == Len(StatusParts(raw)) < 2 \/ IntRaises(StatusParts(raw)[2])

ParseStatus(raw) == IntOf(StatusParts(raw)[2][1])

\* key, value = header_line.split(':', 1) raises ValueError
HeaderRaises(lines) ==
    \E i \in 1..Len(lines) : lines[i] # <<>> /\ IndexOf(lines[i], ":") = 0

\* the entry one header line puts into headers_dict
HeaderKey(line) == Lower(Strip(SubSeq(line, 1, IndexOf(line, ":") - 1)))
HeaderValue(line) == Strip(Tail_(line, IndexOf(line, ":") + 1))

RECURSIVE ParseHeadersFrom(_, _)
\* the loop that fills headers_dict: a later line overwrites an earlier one
ParseHeadersFrom(lines, d) ==
    IF Len(lines) = 0 THEN d
    ELSE LET line == Head(lines)
         IN  IF line = <<>> THEN ParseHeadersFrom(Tail(lines), d)
             ELSE ParseHeadersFrom(Tail(lines),
                      (HeaderKey(line) :> HeaderValue(line)) @@ d)

ParseHeaders(lines) == ParseHeadersFrom(lines, <<>>)

\* 300 <= status_code < 400 and 'location' in headers_dict
IsProtocolRedirect(status_code, headers_dict) ==
    /\ 300 <= status_code
    /\ status_code < 400
    /\ <<"location">> \in DOMAIN headers_dict

\* a redirect URL that is never resolved against the current URL
RedirectTargetAsIs(current_url, redirect_url) == redirect_url

\* the redirect URL made absolute when it has no netloc
RedirectTarget(current_url, redirect_url) ==
    IF urlparse(redirect_url).netloc = <<>>
    THEN urljoin(current_url, redirect_url)
    ELSE redirect_url

\* soup.find('meta', attrs={'http-equiv': re.compile('^refresh$', re.I)})
MetaRefreshAt(items) ==
    {i \in 1..Len(items) :
        items[i].tag = "meta" /\ LowerTok(items[i].attr) = "refresh"}

MetaRefreshIndex(items) ==
    IF MetaRefreshAt(items) = {} THEN 0
    ELSE CHOOSE i \in MetaRefreshAt(items) : \A j \in MetaRefreshAt(items) : i <= j

Quotes == {"'", "\""}

\* the least element of a non-empty set of positions
Least(S) == CHOOSE a \in S : \A b \in S : a <= b

\* where r'url=[\'"](.*?)[\'"]' can match: "url=", a quote, and a quote later on
QuotedStarts(content) ==
    {i \in 1..Len(content) :
        /\ content[i] = "url="
        /\ i + 1 <= Len(content)
        /\ content[i + 1] \in Quotes
        /\ \E j \in (i + 2)..Len(content) : content[j] \in Quotes}

\* group 1 of the leftmost match that starts at i: up to the next quote
QuotedGroup(content, i) ==
    SubSeq(content, i + 2,
           Least({j \in (i + 2)..Len(content) : content[j] \in Quotes}) - 1)

\* url_match.group(1) of the quoted form or else of re.search(r'url=(.*)', content)
UrlMatch(content) ==
    IF QuotedStarts(content) # {}
    THEN [found |-> TRUE, url |-> QuotedGroup(content, Least(QuotedStarts(content)))]
    ELSE IF IndexOf(content, "url=") # 0
    THEN [found |-> TRUE, url |-> Tail_(content, IndexOf(content, "url=") + 1)]
    ELSE [found |-> FALSE, url |-> <<>>]

\* content = meta_refresh['content'].lower()
MetaContent(item) == Lower(item.val)

NoMatch == [found |-> FALSE, url |-> <<>>]

\* an inspection whose exception is not passed over: the match is used as found
MetaTargetUnchecked(current_url, m) ==
    IF ~m.found THEN NoMatch ELSE [found |-> TRUE, url |-> m.url]

\* the redirect URL of a match; an exception of urlparse or urljoin is passed over
MetaTarget(current_url, m) ==
    IF ~m.found \/ UrlParseRaises(m.url) THEN NoMatch
    ELSE [found |-> TRUE, url |-> RedirectTarget(current_url, m.url)]

MetaRedirectAt(current_url, body, i) ==
    IF i = 0 \/ ~body[i].has THEN NoMatch
    ELSE MetaTarget(current_url, UrlMatch(MetaContent(body[i])))

\* the check for an HTML meta redirect, with its try/except: the redirect URL
\* found, if any
MetaRedirect(current_url, body) ==
    MetaRedirectAt(current_url, body, MetaRefreshIndex(body))

\* the return of get for a response without protocol redirect
ReturnDocument(current_url, status_code, body, headers_raw, m) ==
    IF status_code = 200 /\ ContainsLower(BodyText(body), "</html>") /\ m.found
    THEN Response(200, _create_meta_redirect_html(m.url), headers_raw, current_url)
    ELSE Response(status_code, BodyText(body), headers_raw, current_url)

\* the return of get for a protocol redirect
ReturnRedirect(current_url, status_code, redirect_url, headers_raw) ==
    IF UrlParseRaises(redirect_url)
    THEN RequestException(current_url, "Invalid IPv6 URL")
    ELSE Response(status_code,
             _create_redirect_html(status_code,
                                   RedirectTarget(current_url, redirect_url)),
             headers_raw, current_url)

\* get once the status code and the headers are parsed
Resolve(current_url, raw, status_code, headers_dict, headers_raw) ==
    IF IsProtocolRedirect(status_code, headers_dict)
    THEN ReturnRedirect(current_url, status_code, headers_dict[<<"location">>],
                        headers_raw)
    ELSE ReturnDocument(current_url, status_code, raw.body, headers_raw,
                        MetaRedirect(current_url, raw.body))

\* CustomHTTPRequest.get from the received bytes on
DecodeResponse(current_url, raw) ==
    IF ~raw.boundary THEN RequestException(current_url, "Invalid HTTP response")
    ELSE IF StatusRaises(raw) THEN RequestException(current_url, "status")
    ELSE IF HeaderRaises(raw.header_lines) THEN RequestException(current_url, "header")
    ELSE Resolve(current_url, raw, ParseStatus(raw), ParseHeaders(raw.header_lines),
                 <<raw.status_line>> \o raw.header_lines)

(***************************************************************************)
(* Go2Web.make_http_request and Go2Web.format_content.                     *)
(***************************************************************************)
\* re.match(r'^https?://', url)
HasHttpScheme(url) ==
    /\ Len(url) >= 4
    /\ url[1] \in {"http", "https"}
    /\ url[2] = ":" /\ url[3] = "/" /\ url[4] = "/"

\* the URL make_http_request asks for: http:// is put before a URL without scheme
FixUrl(url) == IF HasHttpScheme(url) THEN url ELSE <<"http", ":", "/", "/">> \o url

\* what make_http_request returns, or the exception that leaves it
Output(tag, text, url, html, err) ==
    [tag |-> tag, text |-> text, url |-> url, html |-> html, err |-> err]

NoOutput == Output("none", NoText, <<>>, FALSE, "none")

\* format_content(html_content, url): the formatted page; the extraction of the
\* title and of the text lines is the markup library's
format_content(html_content, url) ==
    IF UrlParseRaises(url)
    THEN Output("format_error", html_content, url, FALSE, "Error formatting content")
    ELSE Output("formatted", html_content, url,
                ContainsLower(html_content, "</html>")
                    \/ ContainsLower(html_content, "</body>"),
                "none")

\* a make_http_request that formats every response that is not a redirect
RouteFormatting(status_code) ==
    IF 300 <= status_code /\ status_code < 400 THEN "redirect" ELSE "format"

\* the branch make_http_request takes on the response's status code
Route(status_code) ==
    IF 300 <= status_code /\ status_code < 400 THEN "redirect"
    ELSE IF status_code >= 400 THEN "raw"
    ELSE "format"

\* a make_http_request without its except clause
MakeHttpResultUncaught(url, response) ==
    IF ~response.ok
    THEN Output("crash", NoText, url, FALSE, "RequestException")
    ELSE Output("raw", response.text, url, FALSE, "none")

\* make_http_request from the result of http_client.get on
MakeHttpResult(url, response) ==
    IF ~response.ok
    THEN Output("error", NoText, url, FALSE, "Error fetching URL")
    ELSE CASE Route(response.status_code) = "redirect" ->
                  format_content(response.text, url)
           [] Route(response.status_code) = "raw" ->
                  Output("raw", response.text, url, FALSE, "none")
           [] OTHER -> format_content(response.text, response.url)

(***************************************************************************)
(* Go2Web.search_web: the result list.  A result string                    *)
(* "{n}. {title}\n\033[94m{url}\033[0m" is a sequence of tokens, the two   *)
(* escape sequences being one token each.                                  *)
(***************************************************************************)
\* "\033[94m" and "\033[0m"
Esc94 == "ESC[94m"
Esc0 == "ESC[0m"

\* the text of a title that carries the two escape sequences around a host
TitleEsc == "ESC[94mevil.netESC[0m"

\* the tokens of the text of a title
Tokens(title) ==
    IF title = TitleEsc THEN <<Esc94, "evil.net", Esc0>> ELSE <<title>>

\* f"{result_counter}. {title}\n\033[94m{url}\033[0m"
Result(rank, title, url) ==
    <<ToString(rank), ". ">> \o Tokens(title) \o <<"\n", Esc94>> \o url \o <<Esc0>>

NoResultsFound == <<<<"No search results found.">>>>

SearchError == <<<<"Search error">>>>

\* where re.search(r'\033\[94m(.*?)\033\[0m', s) can match: at an opening
\* escape that a closing one follows with no newline in between
MatchStarts(s) ==
    {i \in 1..Len(s) :
        /\ s[i] = Esc94
        /\ \E j \in (i + 1)..Len(s) :
               /\ s[j] = Esc0
               /\ \A k \in (i + 1)..(j - 1) : s[k] # "\n"}

\* the end of the lazy group that opens at i: the first closing escape
MatchEnd(s, i) ==
    CHOOSE j \in (i + 1)..Len(s) :
        s[j] = Esc0 /\ \A k \in (i + 1)..(j - 1) : s[k] # Esc0

\* url_match of main(): whether the pattern is found, and group(1)
ResultUrlMatch(s) ==
    IF MatchStarts(s) = {} THEN [found |-> FALSE, url |-> <<>>]
    ELSE [found |-> TRUE,
          url |-> SubSeq(s, Least(MatchStarts(s)) + 1, MatchEnd(s, Least(MatchStarts(s))) - 1)]

\* f"https://search.brave.com/search?q={encoded_query}"
SearchUrl(query) ==
    <<"https", ":", "/", "/", "search.brave.com", "/", "search", "?", "q=", query>>

\* soup.find_all('div', class_='snippet')
ResultBlocks(text) ==
    IF text.kind = "body"
    THEN SelectSeq(text.items, LAMBDA it : it.tag = "snippet") ELSE <<>>

RECURSIVE ExtractFrom(_, _, _)
\* the loop over result_blocks[:12], left when 10 results were found
ExtractFrom(blocks, i, results) ==
    IF i > Len(blocks) \/ i > MaxBlocks THEN results
    ELSE LET b  == blocks[i]
             r1 == IF b.has /\ b.val # <<>> /\ b.attr # ""
                   THEN Append(results, Result(Len(results) + 1, b.attr, b.val))
                   ELSE results
         IN  IF b.has /\ Len(r1) + 1 > MaxResults THEN r1
             ELSE ExtractFrom(blocks, i + 1, r1)

ExtractResults(text) == ExtractFrom(ResultBlocks(text), 1, <<>>)

\* Response.raise_for_status raises
RaisesForStatus(response) == response.status_code >= 400

(***************************************************************************)
(* The persisted cache file and Go2Web._load_cache / _save_cache.          *)
(***************************************************************************)
EmptyDict == <<>>

NoFile == [exists |-> FALSE, corrupt |-> FALSE, entries |-> EmptyDict]

\* a load that keeps every entry
KeepEntryAlways(t, timestamp) == TRUE

\* time.time() - entry.get('timestamp', 0) < 86400
KeepEntry(t, timestamp) == t - timestamp < Validity

\* the dictionary _load_cache builds from the parsed file
FilterEntries(entries, t) ==
    [q \in {k \in DOMAIN entries : KeepEntry(t, entries[k].timestamp)}
        |-> entries[q].results]

\* a load that takes the entries of the file whatever reading it raised
LoadFileAnyway(f, t, io) == FilterEntries(f.entries, t)

\* _load_cache once the directory exists; io = "fail": open or read raises
LoadFile(f, t, io) ==
    IF f.exists /\ io = "ok" /\ ~f.corrupt THEN FilterEntries(f.entries, t)
    ELSE EmptyDict

\* the timestamp _save_cache writes for the entry of query
SaveTimestamp(query, t) == t

\* a save that writes the results of every entry in reverse order
CacheDataReversed(c, t) ==
    [q \in DOMAIN c |->
        [results |-> [i \in 1..Len(c[q]) |-> c[q][Len(c[q]) + 1 - i]],
         timestamp |-> SaveTimestamp(q, t)]]

\* cache_data of _save_cache
CacheData(c, t) ==
    [q \in DOMAIN c |-> [results |-> c[q], timestamp |-> SaveTimestamp(q, t)]]

\* the file after _save_cache: "ok", open raises ("open_fail", also when the
\* directory is missing), or the dump raises after the file was truncated
SaveFile(f, d, c, t, io) ==
    IF ~d \/ io = "open_fail" THEN f
    ELSE IF io = "write_fail"
    THEN [exists |-> TRUE, corrupt |-> TRUE, entries |-> EmptyDict]
    ELSE [exists |-> TRUE, corrupt |-> FALSE, entries |-> CacheData(c, t)]

\* self.search_results_cache[query] = results
Put(c, query, results) ==
    [q \in DOMAIN c \cup {query} |-> IF q = query THEN results ELSE c[q]]

(***************************************************************************)
(* Inputs: the URLs, responses, queries and command lines of the model.    *)
(***************************************************************************)
UrlOld == <<"http", ":", "/", "/", "example.com", "/", "old">>
UrlBad == <<"http", ":", "/", "/", "[", "bad">>
TargetLower == <<"https", ":", "/", "/", "example.com", "/", "target">>
TargetMixed == <<"https", ":", "/", "/", "example.com", "/", "Target">>

\* the URLs given to -u
Urls == {UrlOld, <<"example.com">>, UrlBad}

StatusLine(t) == <<"HTTP/1.1", " ", t, " ", "X">>

StatusLines ==
    {StatusLine(t) : t \in {"200", "300", "301", "399", "400", "404"}}
        \cup {<<"HTTP/1.1">>, <<"HTTP/1.1", " ", "OK">>}

LocNew == <<"Location", ":", " ", "/", "new">>
LocOther == <<"LOCATION", " ", ":", "/", "/", "other.org", "/", "x">>
LocBad == <<"location", ":">> \o UrlBad

HeaderLineSet ==
    {LocNew, LocOther, LocBad,
     <<"Content-Type", ":", " ", "text/html">>,
     <<"garbage">>}

HeaderLists == UNION {[1..n -> HeaderLineSet] : n \in 0..MaxHeaders}

TextItem == Item("text", "", <<>>, FALSE)
CloseHtml == Item("</html>", "", <<>>, FALSE)
Meta(attr, content) == Item("meta", attr, content, TRUE)
Snippet(title, href) == Item("snippet", title, href, TRUE)

BodyPlain == <<TextItem>>
BodyHtml == <<TextItem, CloseHtml>>
\* <meta http-equiv="refresh" content="0;url=https://example.com/target"> in a page
BodyMeta == <<Meta("refresh", <<"0", ";", "url=">> \o TargetLower), CloseHtml>>
\* the same tag in a body that has no </html>
BodyMetaOnly == <<Meta("refresh", <<"0", ";", "url=">> \o TargetLower)>>
\* quoted, relative, upper case
BodyMetaQuoted ==
    <<Meta("Refresh", <<"0", ";", " ", "URL=", "'", "/", "new", "'">>),
      Item("</HTML>", "", <<>>, FALSE)>>
\* a target with an upper-case letter
BodyMetaMixed == <<Meta("refresh", <<"5", ";", "url=">> \o TargetMixed), CloseHtml>>
\* a refresh tag without content before one with content
BodyMetaSecond ==
    <<Item("meta", "refresh", <<>>, FALSE),
      Meta("refresh", <<"0", ";", "url=">> \o TargetLower), CloseHtml>>
\* a target urlparse rejects
BodyMetaBad == <<Meta("refresh", <<"0", ";", "url=">> \o UrlBad), CloseHtml>>
BodyOtherMeta == <<Meta("content-type", <<"text/html">>), TextItem, CloseHtml>>

Bodies ==
    {BodyPlain, BodyHtml, BodyMeta, BodyMetaOnly, BodyMetaQuoted, BodyMetaMixed,
     BodyMetaSecond, BodyMetaBad, BodyOtherMeta}

Raw(boundary, status_line, header_lines, body) ==
    [boundary |-> boundary, status_line |-> status_line,
     header_lines |-> header_lines, body |-> body]

NoRaw == Raw(FALSE, <<>>, <<>>, <<>>)

\* bytes without a "\r\n\r\n"
Truncated == Raw(FALSE, StatusLine("200"), <<>>, <<>>)

\* what a peer may have sent when it closes the connection
RawResponses ==
    {Raw(TRUE, sl, hl, b) : sl \in StatusLines, hl \in HeaderLists, b \in Bodies}
        \cup {Truncated}

\* the queries
Queries == {"q1", "q2"}

ResultUrl1 == <<"https", ":", "/", "/", "example.com", "/", "new">>
ResultUrl2 == <<"other.org", "/", "x">>

\* result pages of the search engine
PageTwo == <<Snippet("T1", ResultUrl1), Snippet(TitleEsc, ResultUrl2), CloseHtml>>
PageOne == <<Snippet("", ResultUrl1), Snippet("T3", ResultUrl2), CloseHtml>>

\* the result page the search engine has for a query
Page(query) == IF query = "q1" THEN PageTwo ELSE PageOne

\* what the peer asked for url may send in the runs that use the cache: the
\* search engine its result page, a page without results, an error status
\* or a status line without a code
Served(url) ==
    IF \E q \in Queries : url = SearchUrl(q)
    THEN {Raw(TRUE, StatusLine("200"), <<>>, Page(url[Len(url)])),
          Raw(TRUE, StatusLine("200"), <<>>, BodyHtml),
          Raw(TRUE, StatusLine("404"), <<>>, Page(url[Len(url)])),
          Raw(TRUE, <<"HTTP/1.1">>, <<>>, BodyHtml),
          Truncated}
    ELSE {Raw(TRUE, StatusLine("200"), <<>>, BodyHtml),
          Raw(TRUE, <<"HTTP/1.1">>, <<>>, BodyHtml),
          Truncated}

Args(help, clear, url, search, access, max_redirects) ==
    [help |-> help, clear |-> clear, url |-> url, search |-> search,
     access |-> access, max_redirects |-> max_redirects]

NoArgs == Args(FALSE, FALSE, <<>>, "", <<>>, DefaultMaxRedirects)

\* the command lines -u URL -r N
FetchArgs ==
    {Args(FALSE, FALSE, u, "", <<>>, n) : u \in Urls, n \in 0..MaxBudget}

\* the command lines of the runs that use the cache
CacheArgs ==
    {Args(FALSE, FALSE, <<>>, q, <<>>, DefaultMaxRedirects) : q \in Queries}
    \cup {Args(FALSE, TRUE, UrlOld, "q1", <<>>, DefaultMaxRedirects),
          Args(TRUE, TRUE, <<>>, "q1", <<>>, DefaultMaxRedirects),
          Args(FALSE, FALSE, UrlOld, "q1", <<"q1", "1">>, DefaultMaxRedirects),
          Args(FALSE, FALSE, <<>>, "", <<"q2", "2">>, DefaultMaxRedirects),
          Args(FALSE, FALSE, <<>>, "", <<"q1", "2">>, DefaultMaxRedirects),
          Args(FALSE, FALSE, <<>>, "", <<"q1", "0">>, DefaultMaxRedirects),
          Args(FALSE, FALSE, <<>>, "", <<"q1", "x">>, DefaultMaxRedirects),
          NoArgs}

(***************************************************************************)
(* State.                                                                  *)
(***************************************************************************)
\* the program instances
Inst == {1, 2}

VARIABLES
    now,     \* time.time()
    dir,     \* whether ~/.go2web_cache exists
    file,    \* search_cache.json: [exists, corrupt, entries]
    run,     \* per instance: the position in main(), its locals and Go2Web object
    stored,  \* history: query -> when its result set was stored
    last,    \* history: the last store, until another cache operation follows it
    clr      \* history: the last --clear-cache, the queries stored before it
             \* and the queries stored since

vars == <<now, dir, file, run, stored, last, clr>>

NoLook == [set |-> FALSE, key |-> "", hit |-> FALSE, val |-> <<>>,
           after |-> "none", v |-> <<>>, at |-> 0, saved |-> FALSE, live |-> FALSE]

NoLast == [op |-> "none", key |-> "", v |-> <<>>, at |-> 0, saved |-> FALSE,
           inst |-> 0, live |-> FALSE]

NoClear == [state |-> "never", keys |-> {}, had |-> {}]

IdleRun ==
    [pc |-> "idle", args |-> NoArgs, stage |-> "start", task |-> "none",
     cache |-> EmptyDict, url |-> <<>>, max_redirects |-> 0,
     redirects_followed |-> 0, trips |-> 0, nconn |-> 0, chunks |-> 0,
     resp |-> NoRaw, got |-> NoResponse, out |-> NoOutput, res |-> <<>>, look |-> NoLook,
     ops |-> {}, loadok |-> TRUE, expired |-> {}, fresh |-> {}, crashed |-> FALSE]

Init ==
    /\ now = 0
    /\ dir = FALSE
    /\ file = NoFile
    /\ run = [p \in Inst |-> IdleRun]
    /\ stored = EmptyDict
    /\ last = NoLast
    /\ clr = NoClear

(***************************************************************************)
(* main(): construction and the dispatch on the arguments.                 *)
(***************************************************************************)
\* go2web = Go2Web(): _load_cache.  io = "fail": os.makedirs raises when the
\* directory is missing, else reading the file raises
StartRun(p, a, io) ==
    /\ run[p].pc = "idle"
    /\ LET made   == ~dir /\ io = "ok"
           failed == IF ~dir THEN io = "fail"
                     ELSE file.exists /\ (io = "fail" \/ file.corrupt)
           loaded == IF ~dir /\ io = "fail" THEN EmptyDict
                     ELSE LoadFile(file, now, io)
       IN  /\ dir' = (dir \/ made)
           /\ run' = [run EXCEPT ![p] =
                  [IdleRun EXCEPT
                      !.pc = "main", !.args = a, !.cache = loaded,
                      !.loadok = ~failed,
                      !.expired = IF file.exists /\ ~file.corrupt
                                  THEN {k \in DOMAIN file.entries :
                                          now - file.entries[k].timestamp > Validity}
                                  ELSE {}]]
    /\ UNCHANGED <<now, file, stored, last, clr>>

\* if args.help: parser.print_help(); return
ShowHelp(p) ==
    /\ run[p].pc = "main" /\ run[p].stage = "start"
    /\ run[p].args.help
    /\ run' = [run EXCEPT ![p].pc = "done", ![p].ops = @ \cup {"help"}]
    /\ UNCHANGED <<now, dir, file, stored, last, clr>>

\* an os.remove that leaves the file in place
RemoveFileKept(f, io) == f

\* the file after os.remove(search_cache_file); io = "fail": it raises
RemoveFile(f, io) == IF io = "ok" THEN NoFile ELSE f

\* if args.clear_cache: the file is removed if it exists; return
ClearCache(p, io) ==
    /\ run[p].pc = "main" /\ run[p].stage = "start"
    /\ ~run[p].args.help /\ run[p].args.clear
    /\ LET removed == ~file.exists \/ io = "ok"
       IN  /\ file' = IF file.exists THEN RemoveFile(file, io) ELSE file
           /\ clr' = [state |-> IF removed THEN "ok" ELSE "failed", keys |-> {},
                      had |-> DOMAIN stored]
           /\ stored' = IF removed THEN EmptyDict ELSE stored
    /\ run' = [run EXCEPT ![p].pc = "done", ![p].ops = @ \cup {"clear"}]
    /\ last' = NoLast
    /\ UNCHANGED <<now, dir>>

\* the next of "if args.url", "if args.search", "if args.access" that applies
NextStage(a, stage) ==
    IF stage = "start" /\ a.url # <<>> THEN "url"
    ELSE IF stage \in {"start", "url"} /\ a.search # "" THEN "search"
    ELSE IF stage \in {"start", "url", "search"} /\ a.access # <<>> THEN "access"
    ELSE "end"

\* main() after the branch of stage: the next branch, or the process is done
Return(r, stage) ==
    [r EXCEPT !.stage = stage,
              !.pc = IF NextStage(r.args, stage) = "end" THEN "done" ELSE "main"]

\* main() is past the help and clear-cache returns
Dispatching(p) ==
    /\ run[p].pc = "main"
    /\ run[p].stage = "start" => ~run[p].args.help /\ ~run[p].args.clear

\* the locals of CustomHTTPRequest.get before the socket is opened
StartGet(r, task, url, max_redirects) ==
    [r EXCEPT !.pc = "connect", !.task = task, !.url = url,
              !.max_redirects = max_redirects, !.redirects_followed = 0,
              !.trips = 0, !.chunks = 0, !.resp = NoRaw,
              !.got = NoResponse, !.out = NoOutput]

\* make_http_request(url, max_redirects) up to the socket; urlparse(current_url)
\* of get is outside its try, a ValueError leaves make_http_request
StartFetch(r, task, url, max_redirects) ==
    IF UrlParseRaises(FixUrl(url))
    THEN [r EXCEPT !.out = Output("crash", NoText, FixUrl(url), FALSE, "ValueError"),
                   !.ops = @ \cup {"fetch"}]
    ELSE [StartGet(r, task, FixUrl(url), max_redirects) EXCEPT
                   !.ops = @ \cup {"fetch"}]

\* if args.url: print(go2web.make_http_request(args.url, ...))
BeginFetch(p) ==
    /\ Dispatching(p)
    /\ NextStage(run[p].args, run[p].stage) = "url"
    /\ LET r == StartFetch(run[p], "url", run[p].args.url, run[p].args.max_redirects)
       IN  run' = [run EXCEPT ![p] =
                      IF r.out.tag = "crash"
                      THEN [r EXCEPT !.pc = "done", !.crashed = TRUE] ELSE r]
    /\ UNCHANGED <<now, dir, file, stored, last, clr>>

\* a search_web that never finds its query in the cache
InCacheNever(c, query) == FALSE

\* if query in self.search_results_cache
InCache(c, query) == query \in DOMAIN c

\* history: what the lookup of search_web finds in the cache of the run, and
\* the store it follows
Lookup(p, query) ==
    [set |-> TRUE, key |-> query,
     hit |-> query \in DOMAIN run[p].cache,
     val |-> IF query \in DOMAIN run[p].cache THEN run[p].cache[query] ELSE <<>>,
     after |-> IF last.op = "store" /\ last.key = query THEN "store" ELSE "other",
     v |-> last.v, at |-> last.at, saved |-> last.saved,
     live |-> last.live /\ last.inst = p]

\* the rest of the access branch once search_web has returned results
AccessContinue(r, results) ==
    LET n == IntOf(r.args.access[2])
    IN  IF results[1] = NoResultsFound[1] \/ Len(results) < n
        THEN [r EXCEPT !.res = results, !.pc = "done"]
        ELSE IF ~ResultUrlMatch(results[n]).found
        THEN Return([r EXCEPT !.res = results], "access")
        ELSE LET f == StartFetch([r EXCEPT !.res = results], "access_fetch",
                                 ResultUrlMatch(results[n]).url, r.args.max_redirects)
             IN  IF f.out.tag = "crash"
                 THEN Return(f, "access")
                 ELSE f

\* if args.search: results = go2web.search_web(args.search), up to the socket
BeginSearch(p) ==
    /\ Dispatching(p)
    /\ NextStage(run[p].args, run[p].stage) = "search"
    /\ LET q == run[p].args.search
           l == Lookup(p, q)
           r == [run[p] EXCEPT !.look = l, !.ops = @ \cup {"search"},
                               !.out = NoOutput, !.resp = NoRaw,
                               !.got = NoResponse, !.res = <<>>]
       IN  run' = [run EXCEPT ![p] =
                      IF InCache(run[p].cache, q)
                      THEN Return([r EXCEPT !.res = l.val], "search")
                      ELSE StartGet(r, "search", SearchUrl(q), DefaultMaxRedirects)]
    /\ last' = NoLast
    /\ UNCHANGED <<now, dir, file, stored, clr>>

\* if args.access: the number is parsed, then search_web(search_term), up to
\* the socket
BeginAccess(p) ==
    /\ Dispatching(p)
    /\ NextStage(run[p].args, run[p].stage) = "access"
    /\ LET a == run[p].args.access
           q == a[1]
           l == Lookup(p, q)
           r == [run[p] EXCEPT !.look = l, !.ops = @ \cup {"search"},
                               !.out = NoOutput, !.resp = NoRaw,
                               !.got = NoResponse, !.res = <<>>]
       IN  IF IntRaises(<<a[2]>>)
           THEN /\ run' = [run EXCEPT ![p] = Return(run[p], "access")]
                /\ last' = last
           ELSE IF IntOf(a[2]) < 1
           THEN /\ run' = [run EXCEPT ![p].pc = "done"]
                /\ last' = last
           ELSE /\ run' = [run EXCEPT ![p] =
                      IF InCache(run[p].cache, q) THEN AccessContinue(r, l.val)
                      ELSE StartGet(r, "access_search", SearchUrl(q),
                                    DefaultMaxRedirects)]
                /\ last' = NoLast
    /\ UNCHANGED <<now, dir, file, stored, clr>>

\* the end of main(): usage is shown when no argument was given
Finish(p) ==
    /\ Dispatching(p)
    /\ NextStage(run[p].args, run[p].stage) = "end"
    /\ run' = [run EXCEPT ![p].pc = "done",
                          ![p].ops = IF run[p].args = NoArgs
                                     THEN @ \cup {"help"} ELSE @]
    /\ UNCHANGED <<now, dir, file, stored, last, clr>>

\* the process exits
EndRun(p) ==
    /\ run[p].pc = "done"
    /\ run' = [run EXCEPT ![p] = IdleRun]
    /\ last' = IF last.inst = p THEN [last EXCEPT !.live = FALSE] ELSE last
    /\ UNCHANGED <<now, dir, file, stored, clr>>

\* the step of the clock: one second less than the validity window
TickSize == Validity - 1

\* time passes between runs
Tick ==
    /\ \A p \in Inst : run[p].pc = "idle"
    /\ now + TickSize <= MaxTicks * TickSize
    /\ now' = now + TickSize
    /\ UNCHANGED <<dir, file, run, stored, last, clr>>

(***************************************************************************)
(* CustomHTTPRequest.get: the socket, the recv loop and the decoding, and  *)
(* what its caller does with the result.                                   *)
(***************************************************************************)
\* what search_web returns for the result of http_client.get
SearchResults(response) ==
    IF ~response.ok \/ RaisesForStatus(response) THEN SearchError
    ELSE IF ExtractResults(response.text) = <<>> THEN NoResultsFound
    ELSE ExtractResults(response.text)

\* a search_web that caches whatever a response it received yields
StoresAlways(response) == response.ok

\* "if results:" of search_web is reached and holds
Stores(response) ==
    /\ response.ok
    /\ ~RaisesForStatus(response)
    /\ ExtractResults(response.text) # <<>>

\* the caller of get goes on with its result: make_http_request formats it,
\* search_web extracts, caches and saves the results (io: how the save ends)
Complete(p, r, response, io) ==
    LET q  == IF r.task = "search" THEN r.args.search ELSE r.args.access[1]
        st == r.task \in {"search", "access_search"} /\ Stores(response)
        results == SearchResults(response)
        c2 == IF st THEN Put(r.cache, q, results) ELSE r.cache
        r2 == [r EXCEPT !.got = response, !.cache = c2, !.res = results,
                        !.fresh = IF st THEN @ \cup {q} ELSE @]
    IN  /\ run' = [run EXCEPT ![p] =
               CASE r.task = "url" ->
                        Return([r EXCEPT !.got = response,
                                         !.out = MakeHttpResult(r.url, response)],
                               "url")
                 [] r.task = "access_fetch" ->
                        Return([r EXCEPT !.got = response,
                                         !.out = MakeHttpResult(r.url, response)],
                               "access")
                 [] r.task = "search" ->
                        Return(r2, "search")
                 [] OTHER -> AccessContinue(r2, results)]
        /\ file' = IF st THEN SaveFile(file, dir, c2, now, io) ELSE file
        /\ stored' = IF st THEN Put(stored, q, now)
                     ELSE stored
        /\ last' = IF st
                   THEN [op |-> "store", key |-> q, v |-> results, at |-> now,
                         saved |-> (dir /\ io = "ok"), inst |-> p, live |-> TRUE]
                   ELSE last
        /\ clr' = IF ~st THEN clr
                  ELSE IF clr.state = "ok" THEN [clr EXCEPT !.keys = @ \cup {q}]
                  ELSE NoClear
        /\ UNCHANGED <<now, dir>>

\* sock.connect and sock.sendall: one request goes out, or an exception
Connect(p, ok) ==
    /\ run[p].pc = "connect"
    /\ run[p].trips < run[p].max_redirects + 3
    /\ IF ok
       THEN /\ run' = [run EXCEPT ![p].pc = "recv", ![p].trips = @ + 1,
                                  ![p].nconn = @ + 1, ![p].chunks = 0]
            /\ UNCHANGED <<now, dir, file, stored, last, clr>>
       ELSE Complete(p, run[p], RequestException(run[p].url, "connect"), "ok")

\* sock.recv returns data
RecvData(p) ==
    /\ run[p].pc = "recv"
    /\ run' = [run EXCEPT ![p].chunks = IF @ < MaxChunks THEN @ + 1 ELSE @]
    /\ UNCHANGED <<now, dir, file, stored, last, clr>>

\* sock.recv raises
RecvError(p) ==
    /\ run[p].pc = "recv"
    /\ Complete(p, run[p], RequestException(run[p].url, "recv"), "ok")

\* a get that follows a redirect while redirects_followed <= max_redirects
NextRequestFollowing(response, redirects_followed, max_redirects) ==
    IF /\ response.ok
       /\ response.text.kind \in {"moved", "refresh"}
       /\ redirects_followed <= max_redirects
    THEN "request" ELSE "return"

\* what get does with a decoded response: it returns it, also when it is a
\* redirect ("Only perform the initial request")
NextRequest(response, redirects_followed, max_redirects) == "return"

\* the rest of get and of its caller once the bytes are received
Decode(p, r, response, io) ==
    IF NextRequest(response, r.redirects_followed, r.max_redirects) = "request"
    THEN /\ run' = [run EXCEPT ![p] =
                       [r EXCEPT !.pc = "connect", !.url = response.text.href,
                                 !.redirects_followed = @ + 1]]
         /\ UNCHANGED <<now, dir, file, stored, last, clr>>
    ELSE Complete(p, r, response, io)

\* sock.recv returns b"": the peer has closed, raw is what it had sent; the
\* response is parsed and get returns
PeerClose(p, raw, io) ==
    /\ run[p].pc = "recv"
    /\ Decode(p, [run[p] EXCEPT !.resp = raw, !.chunks = 0],
              DecodeResponse(run[p].url, raw), io)

\* the peer of a run that uses the cache answers and closes
ServedClose(p, io) == \E raw \in Served(run[p].url) : PeerClose(p, raw, io)

(***************************************************************************)
(* Specifications.                                                         *)
(***************************************************************************)
IoLoad == {"ok", "fail"}
IoSave == {"ok", "open_fail", "write_fail"}

\* one step of get on its socket
SocketStep(p) ==
    \/ \E ok \in BOOLEAN : Connect(p, ok)
    \/ RecvData(p)
    \/ RecvError(p)

\* runs of -u URL -r N against every modelled response
NextFetch ==
    \/ \E a \in FetchArgs : StartRun(1, a, "ok")
    \/ BeginFetch(1)
    \/ SocketStep(1)
    \/ \E raw \in RawResponses : PeerClose(1, raw, "ok")
    \/ EndRun(1)

SpecFetch == Init /\ [][NextFetch]_vars

\* one response of every kind get tells apart: redirects with and without a
\* usable location, document redirects, error statuses and broken responses
FairResponses ==
    {Raw(TRUE, sl, hl, b) :
        sl \in {StatusLine("200"), StatusLine("301"), StatusLine("404"),
                <<"HTTP/1.1">>},
        hl \in {<<>>, <<LocNew>>, <<LocBad>>, <<LocNew, <<"garbage">>>>},
        b \in {BodyHtml, BodyMeta}}
        \cup {Truncated}

\* the peer answers with one of FairResponses and closes
FairClose(p) == \E raw \in FairResponses : PeerClose(p, raw, "ok")

NextFair ==
    \/ \E a \in FetchArgs : StartRun(1, a, "ok")
    \/ BeginFetch(1)
    \/ SocketStep(1)
    \/ FairClose(1)
    \/ EndRun(1)

\* runs of -u URL -r N in which main() goes on, the socket calls return and
\* the peer closes its connection
FairFetch ==
    /\ Init /\ [][NextFair]_vars
    /\ WF_vars(BeginFetch(1) \/ EndRun(1))
    /\ WF_vars(\E ok \in BOOLEAN : Connect(1, ok))
    /\ WF_vars(RecvError(1) \/ FairClose(1))

\* runs of one instance that search, access and clear, as time passes
NextCache ==
    \/ \E a \in CacheArgs, io \in IoLoad : StartRun(1, a, io)
    \/ ShowHelp(1)
    \/ \E io \in IoLoad : ClearCache(1, io)
    \/ BeginFetch(1)
    \/ BeginSearch(1)
    \/ BeginAccess(1)
    \/ SocketStep(1)
    \/ \E io \in IoSave : ServedClose(1, io)
    \/ Finish(1)
    \/ EndRun(1)
    \/ Tick

SpecCache == Init /\ [][NextCache]_vars

(***************************************************************************)
(* Properties of a fetch (-u URL -r N).                                    *)
(***************************************************************************)
\* make_http_request has returned to main() in instance p
Fetched(p) == run[p].task = "url" /\ run[p].out.tag # "none"

\* get parses the received bytes up to the headers without an exception
Decodes(raw) ==
    raw.boundary /\ ~StatusRaises(raw) /\ ~HeaderRaises(raw.header_lines)

\* the positions of the location headers among the received header lines
LocationLines(raw) ==
    {i \in 1..Len(raw.header_lines) :
        /\ IndexOf(raw.header_lines[i], ":") > 0
        /\ HeaderKey(raw.header_lines[i]) = <<"location">>}

\* a URL as the redirect target it stands for seen from base
Resolved(base, url) ==
    IF urlparse(url).netloc # <<>> THEN url ELSE urljoin(base, url)

\* C1: for every budget N and every server behaviour a fetch makes at most
\* N + 1 round trips, and once it has begun it ends with a response or an
\* error, given that the socket calls return and every peer closes
C1_RoundTrips ==
    /\ [](\A p \in Inst : run[p].trips <= run[p].max_redirects + 1)
    /\ \A p \in Inst :
           (run[p].pc \in {"connect", "recv"})
               ~> (run[p].pc = "done" /\ Fetched(p)
                      /\ run[p].out.tag \in {"formatted", "format_error", "raw", "error"})

\* a fetch with budget 0 whose server answered with a redirect has ended after
\* one round trip with the notice
C1_Witness ==
    /\ run[1].pc = "done" /\ Fetched(1)
    /\ run[1].max_redirects = 0
    /\ run[1].trips = 1
    /\ run[1].resp.status_line = StatusLine("301")
    /\ run[1].out.text.kind = "moved"

\* C6: a decoded response with status >= 400 reaches the caller as received:
\* the output is the raw body, unformatted, no redirect notice takes its place
\* and no second request is made, whatever its headers and body hold
C6_ErrorStatusRaw ==
    \A p \in Inst :
        (Fetched(p) /\ Decodes(run[p].resp) /\ ParseStatus(run[p].resp) >= 400)
            => /\ run[p].out.tag = "raw"
               /\ run[p].out.text = BodyText(run[p].resp.body)
               /\ run[p].got.text = BodyText(run[p].resp.body)
               /\ run[p].trips = 1

\* a 404 with a location header and a meta refresh tag was returned raw
C6_Witness ==
    /\ Fetched(1)
    /\ run[1].resp = Raw(TRUE, StatusLine("404"), <<LocNew>>, BodyMeta)
    /\ run[1].out.tag = "raw"
    /\ run[1].out.text = BodyText(BodyMeta)

\* C7: for a decoded response, get returns the redirect notice exactly when
\* the status is in [300,400) and a location header is present; the notice
\* names the status and a target, the response keeps the status code and the
\* URL that was requested, and no further request is made; a 3xx response
\* without location header is returned with its own body
C7_ProtocolRedirect ==
    \A p \in Inst :
        (Fetched(p) /\ Decodes(run[p].resp)) =>
            LET status    == ParseStatus(run[p].resp)
                is3xx     == 300 <= status /\ status < 400
                signalled == run[p].got.ok /\ run[p].got.text.kind = "moved"
            IN  /\ signalled <=> (is3xx /\ LocationLines(run[p].resp) # {})
                /\ signalled =>
                      /\ run[p].got.text.status = status
                      /\ run[p].got.text.href # <<>>
                      /\ run[p].got.status_code = status
                      /\ run[p].got.url = run[p].url
                      /\ run[p].trips = 1
                /\ (is3xx /\ LocationLines(run[p].resp) = {}) =>
                      /\ run[p].got.ok
                      /\ run[p].got.status_code = status
                      /\ run[p].got.text = BodyText(run[p].resp.body)

\* C8: the target named by a redirect notice is the value of a location
\* header itself when that value has a host, else the value resolved against
\* the URL of the response; a 301 with "Location: /new" received for
\* http://example.com/old names http://example.com/new
C8_RedirectTarget ==
    \A p \in Inst :
        (Fetched(p) /\ run[p].got.ok /\ run[p].got.text.kind = "moved") =>
            /\ \E i \in LocationLines(run[p].resp) :
                  LET value == HeaderValue(run[p].resp.header_lines[i])
                  IN  run[p].got.text.href =
                          IF urlparse(value).netloc # <<>> THEN value
                          ELSE urljoin(run[p].url, value)
            /\ (/\ run[p].url = UrlOld
                /\ run[p].resp.status_line = StatusLine("301")
                /\ run[p].resp.header_lines = <<LocNew>>)
                   => run[p].got.text.href =
                          <<"http", ":", "/", "/", "example.com", "/", "new">>

\* the 301 with "Location: /new" for http://example.com/old was resolved
C8_Witness ==
    /\ Fetched(1)
    /\ run[1].url = UrlOld
    /\ run[1].resp.status_line = StatusLine("301")
    /\ run[1].resp.header_lines = <<LocNew>>
    /\ run[1].got.text.kind = "moved"
    /\ run[1].got.text.href = <<"http", ":", "/", "/", "example.com", "/", "new">>

\* where the directive url=<target> of a content attribute begins
DirectiveIndex(content) == IndexOf(Lower(content), "url=")

\* a target without the quotes around it
Unquoted(s) ==
    IF Len(s) >= 2 /\ s[1] \in Quotes /\ s[Len(s)] \in Quotes
    THEN SubSeq(s, 2, Len(s) - 1) ELSE s

\* <target> of a content attribute <delay>;url=<target>, as written
DirectiveTarget(content) == Unquoted(Tail_(content, DirectiveIndex(content) + 1))

\* the meta refresh tags of a body that carry such a directive
RefreshTags(body) ==
    {i \in 1..Len(body) :
        /\ body[i].tag = "meta" /\ LowerTok(body[i].attr) = "refresh"
        /\ body[i].has /\ DirectiveIndex(body[i].val) > 1}

\* C9: a decoded response with status 200 whose body has a meta refresh tag
\* with a directive <delay>;url=<target> yields the document redirect whose
\* target is exactly <target>, resolved against the response URL when it is
\* relative
C9_MetaRefresh ==
    \A p \in Inst :
        (/\ Fetched(p) /\ Decodes(run[p].resp)
         /\ ParseStatus(run[p].resp) = 200
         /\ RefreshTags(run[p].resp.body) # {}) =>
            LET i      == Least(RefreshTags(run[p].resp.body))
                target == DirectiveTarget(run[p].resp.body[i].val)
            IN  ~UrlParseRaises(target) =>
                    /\ run[p].got.ok
                    /\ run[p].got.text.kind = "refresh"
                    /\ run[p].got.text.href = Resolved(run[p].url, target)

\* C10: when more than one location header was received, the target of the
\* redirect is computed from the first of them
C10_FirstLocation ==
    \A p \in Inst :
        (/\ Fetched(p) /\ run[p].got.ok /\ run[p].got.text.kind = "moved"
         /\ Cardinality(LocationLines(run[p].resp)) > 1) =>
            LET i == Least(LocationLines(run[p].resp))
            IN  run[p].got.text.href =
                    Resolved(run[p].url, HeaderValue(run[p].resp.header_lines[i]))

(***************************************************************************)
(* Properties of the result cache.                                         *)
(***************************************************************************)
\* search_web of instance p has looked its query up
LookedUp(p) == run[p].look.set

\* after a miss search_web asks the search engine for the key: the request
\* is under way or has ended, and the access branch went on to a result only
\* with the results of that request
SearchesNetwork(p) ==
    \/ /\ run[p].task \in {"search", "access_search"}
       /\ run[p].url = SearchUrl(run[p].look.key)
    \/ /\ run[p].task = "access_fetch"
       /\ run[p].look.key \in run[p].fresh

\* C2: a lookup of k hits only if k was stored and less than the validity
\* window has passed since k's result set was stored; a lookup that misses
\* is followed by a network search
C2_LookupFresh ==
    \A p \in Inst :
        LookedUp(p) =>
            /\ run[p].look.hit =>
                  /\ run[p].look.key \in DOMAIN stored
                  /\ now - stored[run[p].look.key] < Validity
            /\ ~run[p].look.hit => SearchesNetwork(p)

\* the lookup of p directly follows the store of its key, and falls within
\* the validity window of that store
FollowsStore(p) ==
    /\ LookedUp(p)
    /\ run[p].look.after = "store"
    /\ now - run[p].look.at < Validity

C4_Expiry ==
    \A p \in Inst :
        (/\ LookedUp(p)
         /\ run[p].look.key \in run[p].expired
         /\ run[p].look.key \notin run[p].fresh) =>
            /\ ~run[p].look.hit
            /\ run[p].look.key \notin DOMAIN run[p].cache
            /\ SearchesNetwork(p)

\* a run that found an entry of its key older than the window has connected
\* to the search engine
C4_Witness ==
    /\ LookedUp(1)
    /\ run[1].look.key \in run[1].expired
    /\ ~run[1].look.hit
    /\ run[1].pc = "recv"
    /\ run[1].url = SearchUrl(run[1].look.key)

\* the run of --clear-cache does nothing but clear
ClearOnly(p) ==
    "clear" \in run[p].ops =>
        /\ run[p].ops = {"clear"}
        /\ run[p].nconn = 0
        /\ ~LookedUp(p)
        /\ run[p].task = "none"

HasMalformedHeader(raw) ==
    \E i \in 1..Len(raw.header_lines) :
        raw.header_lines[i] # <<>> /\ IndexOf(raw.header_lines[i], ":") = 0

\* no received location header has a value urlparse rejects
LocationsParse(raw) ==
    \A i \in LocationLines(raw) : ~UrlParseRaises(HeaderValue(raw.header_lines[i]))

\* C11: a header line without a colon is skipped: a response with a boundary
\* and a numeric status that has such a line is still decoded, get returns a
\* response with its status, and the fetch does not end with the error string
C11_MalformedHeaderSkipped ==
    \A p \in Inst :
        (/\ Fetched(p)
         /\ run[p].resp.boundary /\ ~StatusRaises(run[p].resp)
         /\ HasMalformedHeader(run[p].resp)
         /\ LocationsParse(run[p].resp)) =>
            /\ run[p].got.ok
            /\ run[p].got.status_code = ParseStatus(run[p].resp)
            /\ run[p].out.tag # "error"

\* the get of instance p has ended on one of these failures: connect, TLS or
\* read failed (nothing was kept of the response), the received bytes have no
\* "\r\n\r\n", or the status code is absent or not a number
FetchFailure(p) ==
    /\ run[p].got # NoResponse
    /\ ~run[p].resp.boundary \/ StatusRaises(run[p].resp)

\* C12: each such failure ends that get with a request error after at most
\* one request; the caller of make_http_request gets the string "Error
\* fetching URL ...", the caller of search_web the "Search error" result;
\* no exception leaves either and no request is sent again
C12_FailuresHandled ==
    \A p \in Inst :
        FetchFailure(p) =>
            /\ ~run[p].got.ok
            /\ ~run[p].crashed
            /\ run[p].trips <= 1
            /\ run[p].pc \notin {"connect", "recv"}
            /\ IF run[p].task \in {"url", "access_fetch"}
               THEN /\ run[p].out.tag = "error"
                    /\ run[p].out.err = "Error fetching URL"
               ELSE run[p].res = SearchError

\* a fetch whose response had no status code ended with the error string
C12_Witness ==
    /\ FetchFailure(1)
    /\ run[1].task = "url"
    /\ run[1].resp.boundary
    /\ run[1].resp.status_line = <<"HTTP/1.1">>
    /\ run[1].out.tag = "error"

\* the inspection of the body for a meta refresh fails: the directive of its
\* first refresh tag names a target that urlparse rejects
InspectionFails(raw) ==
    /\ RefreshTags(raw.body) # {}
    /\ UrlParseRaises(DirectiveTarget(raw.body[Least(RefreshTags(raw.body))].val))

\* C13: when the inspection of a 200 response's body for a meta refresh
\* fails, get returns that response with its status, body and URL, and the
\* fetch ends with the formatted page, not with an error
C13_InspectionFailure ==
    \A p \in Inst :
        (/\ Fetched(p) /\ Decodes(run[p].resp)
         /\ ParseStatus(run[p].resp) = 200
         /\ InspectionFails(run[p].resp)) =>
            /\ run[p].got.ok
            /\ run[p].got.status_code = 200
            /\ run[p].got.text = BodyText(run[p].resp.body)
            /\ run[p].got.url = run[p].url
            /\ run[p].out.tag = "formatted"
            /\ run[p].out.text = BodyText(run[p].resp.body)

\* a page with </html> whose refresh directive names http://[bad was returned
\* as it was received
C13_Witness ==
    /\ Fetched(1)
    /\ run[1].resp = Raw(TRUE, StatusLine("200"), <<>>, BodyMetaBad)
    /\ run[1].got.ok
    /\ run[1].got.text = BodyText(BodyMetaBad)

(***************************************************************************)
(* Properties of search_web and of the commands of main().                 *)
(***************************************************************************)
\* a request of instance p to the search engine for its query is under way
\* or has ended since the lookup
SearchRequested(p) ==
    \/ run[p].pc \in {"connect", "recv"} /\ run[p].url = SearchUrl(run[p].look.key)
    \/ run[p].got.url = SearchUrl(run[p].look.key)

\* C14: search_web looks the query up before any network I/O: on a hit it
\* returns the cached results and sends no request to the search engine (a
\* run that only searches makes no connection at all), and a request to the
\* search engine is under way only after a lookup of its query that missed
C14_CacheFirst ==
    \A p \in Inst :
        /\ (LookedUp(p) /\ run[p].look.hit) =>
              /\ run[p].res = run[p].look.val
              /\ ~SearchRequested(p)
              /\ (run[p].args.url = <<>> /\ run[p].args.access = <<>>)
                     => run[p].nconn = 0
        /\ (/\ run[p].pc \in {"connect", "recv"}
            /\ run[p].task \in {"search", "access_search"}) =>
              /\ LookedUp(p)
              /\ ~run[p].look.hit
              /\ run[p].url = SearchUrl(run[p].look.key)

\* a run of -s q1 in a later run returned the two cached results without a
\* connection
C14_Witness ==
    /\ LookedUp(1) /\ run[1].look.hit
    /\ run[1].pc = "done"
    /\ run[1].args.url = <<>> /\ run[1].args.access = <<>>
    /\ run[1].nconn = 0
    /\ Len(run[1].res) = 2
    /\ run[1].res = run[1].look.val

\* the store of the running instance p whose save failed
SaveFailed(p) ==
    last.op = "store" /\ last.inst = p /\ last.live /\ ~last.saved

\* C15: a run whose load of the persisted cache failed (the directory could
\* not be made, or the file was unreadable or corrupt) goes on with an empty
\* cache, and a search whose save failed still returns its results and
\* keeps them in the cache of the run
C15_CacheFailures ==
    \A p \in Inst :
        /\ (run[p].pc # "idle" /\ ~run[p].loadok) =>
              /\ ~run[p].crashed
              /\ run[p].fresh = {} => run[p].cache = EmptyDict
              /\ (LookedUp(p) /\ run[p].look.key \notin run[p].fresh)
                     => ~run[p].look.hit
        /\ SaveFailed(p) =>
              /\ ~run[p].crashed
              /\ run[p].res = last.v
              /\ last.key \in DOMAIN run[p].cache
              /\ run[p].cache[last.key] = last.v

\* a run that could not read the corrupt cache file searched, got results and
\* returned them although the save failed too
C15_Witness ==
    /\ ~run[1].loadok
    /\ file.exists /\ file.corrupt
    /\ SaveFailed(1)
    /\ run[1].pc = "done"
    /\ Len(run[1].res) = 2
    /\ run[1].res = last.v

\* C16: a run given -h/--help, whatever accompanies it, only shows the
\* usage: no step of it (its start included) changes the cache directory or
\* the cache file, and it connects nowhere, searches nothing and clears
\* nothing
C16_HelpOnly ==
    [][\A p \in Inst :
          (run'[p].pc # "idle" /\ run'[p].args.help) =>
              /\ dir' = dir
              /\ file' = file
              /\ run'[p].nconn = 0
              /\ run'[p].ops \subseteq {"help"}
              /\ run'[p].cache = IF run[p].pc = "idle" THEN run'[p].cache
                                 ELSE run[p].cache]_vars

\* the result lists of a search that failed or found nothing
Unsuccessful == {SearchError, NoResultsFound}

\* the search of p is waiting for its response
Searching(p) ==
    /\ run[p].pc \in {"connect", "recv"}
    /\ run[p].task \in {"search", "access_search"}

\* C17: only a successful uncached search creates a cache entry: the step
\* that ends a search in an error or without results leaves the cache of the
\* run and the cache file as they were, no entry of either ever holds an
\* error or an empty result list, and the query of such a search is still
\* absent from the cache of the run, so that its next search asks the network
C17_OnlySuccessStores ==
    /\ [][\A p \in Inst :
             (Searching(p) /\ ~Searching(p)' /\ run'[p].res \in Unsuccessful) =>
                 /\ run'[p].cache = run[p].cache
                 /\ file' = file
                 /\ run[p].look.key \notin DOMAIN run'[p].cache]_vars
    /\ [](\A p \in Inst :
             /\ \A k \in DOMAIN run[p].cache :
                    run[p].cache[k] \notin Unsuccessful \cup {<<>>}
             /\ \A k \in DOMAIN file.entries :
                    file.entries[k].results \notin Unsuccessful \cup {<<>>})

\* a search that was answered with an error status ended with "Search
\* error" while the file still holds only the entry of an earlier search
C17_Witness ==
    /\ run[1].task = "search" /\ run[1].pc = "done"
    /\ run[1].res = SearchError
    /\ run[1].got.ok /\ run[1].got.status_code = 404
    /\ run[1].look.key = "q1"
    /\ "q1" \notin DOMAIN run[1].cache
    /\ file.exists /\ DOMAIN file.entries = {"q2"}

\* the step is a search of p storing its results under its key and saving
\* them to the cache file
StoreStep(p) ==
    /\ Searching(p)
    /\ run[p].loadok
    /\ run[p].look.key \notin run[p].fresh
    /\ run[p].look.key \in run'[p].fresh
    /\ last'.saved

\* C18: a store of k gives a fresh timestamp to the entry of k only: every
\* other entry of the cache file that has not expired has the same results
\* and the same timestamp after the store as before it
C18_StoreFrame ==
    [][\A p \in Inst :
          StoreStep(p) =>
              \A k \in DOMAIN file.entries \ {run[p].look.key} :
                  now - file.entries[k].timestamp <= Validity =>
                      /\ k \in DOMAIN file'.entries
                      /\ file'.entries[k] = file.entries[k]]_vars

(***************************************************************************)
(* Two instances of the program share the cache file: instance 1 searches  *)
(* q1, instance 2 searches q2; loads and saves succeed.                    *)
(***************************************************************************)
\* the command line of instance p
RaceArgs(p) ==
    Args(FALSE, FALSE, <<>>, IF p = 1 THEN "q1" ELSE "q2", <<>>,
         DefaultMaxRedirects)

NextRace ==
    \/ \E p \in Inst : StartRun(p, RaceArgs(p), "ok")
    \/ \E p \in Inst : BeginSearch(p)
    \/ \E p \in Inst : SocketStep(p)
    \/ \E p \in Inst : ServedClose(p, "ok")
    \/ \E p \in Inst : EndRun(p)

SpecRace == Init /\ [][NextRace]_vars

\* p has ended a run in which it loaded the cache file, found its query
\* absent, searched it with success and stored the results
SearchedAndStored(p) ==
    /\ run[p].pc = "done"
    /\ run[p].loadok
    /\ run[p].look.set /\ ~run[p].look.hit
    /\ run[p].look.key \in run[p].fresh

\* C19: when two instances that both loaded the cache file have each
\* completed a successful uncached search, for different queries, the cache
\* file holds the entries of both queries, however their loads, fetches and
\* stores were interleaved
C19_NoLostStore ==
    (SearchedAndStored(1) /\ SearchedAndStored(2)) =>
        /\ file.exists /\ ~file.corrupt
        /\ {run[1].look.key, run[2].look.key} \subseteq DOMAIN file.entries

\* the hrefs of the blocks of a result page that search_web lists, in order
ListedHrefs(page) ==
    LET listed == SelectSeq(page, LAMBDA it : it.tag = "snippet" /\ it.has
                                             /\ it.val # <<>> /\ it.attr # "")
    IN  [i \in 1..Len(listed) |-> listed[i].val]

\* the access branch of p has called make_http_request and get was entered
AccessFetches(p) == run[p].task = "access_fetch"

\* C20: -a query n fetches a URL only when n is an integer, 1 <= n, and the
\* search of the query gave at least n results, and what it then fetches is
\* the URL of the n-th result of the query (with the scheme make_http_request
\* gives a URL that has none); otherwise it fetches nothing
C20_AccessNth ==
    \A p \in Inst :
        AccessFetches(p) =>
            /\ ~IntRaises(<<run[p].args.access[2]>>)
            /\ IntOf(run[p].args.access[2]) >= 1
            /\ run[p].res \notin Unsuccessful
            /\ Len(run[p].res) >= IntOf(run[p].args.access[2])
            /\ Len(ListedHrefs(Page(run[p].args.access[1])))
                   >= IntOf(run[p].args.access[2])
            /\ run[p].url =
                 FixUrl(ListedHrefs(Page(run[p].args.access[1]))
                            [IntOf(run[p].args.access[2])])

====
